---------------------------- MODULE Spec2Model ----------------------------
(***************************************************************************)
(* Model of the ed25519 benchmark: the worker's main() loop (key setup,    *)
(* four timed stages per iteration, rolling averages, a status message     *)
(* every 100 samples), the module entry that maps main()'s outcome to an   *)
(* exit code, and the host page that prepends each message to its log.     *)
(*                                                                         *)
(* Numbers.  The averages are IEEE doubles in the code.  Here a double is  *)
(* carried as an integer enclosure [lo, hi] in units of 1/Scale: the real  *)
(* value of the expression the code evaluates lies in it (division rounds  *)
(* outwards).  Strings are sequences of one-character strings.             *)
(***************************************************************************)
EXTENDS Integers, Sequences, FiniteSets

VARIABLES
    profile,              \* environment: how the clock behaves in this run
    isMain,               \* require.main === module
    pc,                   \* position of main() / of the entry's handlers
    inProgress,           \* stages whose timeBlock has started and not ended
    privateKey, publicKey,
    data, dataHash, signature, verifyResult,
    generateDataTime, hashDataTime, signDataTime, verifyTime,
    generateDataAverage, hashDataAverage, signDataAverage, verifyAverage,
    totalSamples,
    mailbox,              \* messages posted by the worker, not yet delivered
    pre,                  \* the host's log, first line first
    toWorker,             \* messages from the host to the worker
    errStream,            \* console.error lines
    exitCode,             \* process exit code, Unset while nothing set it
    posted, received,     \* history: every message posted / delivered
    hist,                 \* history: per stage, every duration measured
    args,                 \* history: per stage, the arguments of this iteration's call
    order,                \* history: stages completed in this iteration
    fmtArg, fmtRes        \* argument and result of the count formatter

loopVars == <<data, dataHash, signature, verifyResult,
              generateDataTime, hashDataTime, signDataTime, verifyTime>>
avgVars == <<generateDataAverage, hashDataAverage, signDataAverage,
             verifyAverage, totalSamples>>
keyVars == <<privateKey, publicKey>>
hostVars == <<pre, received, toWorker>>
fmtVars == <<fmtArg, fmtRes>>
envVars == <<profile, isMain>>
vars == <<profile, isMain, pc, inProgress, privateKey, publicKey, data,
          dataHash, signature, verifyResult, generateDataTime, hashDataTime,
          signDataTime, verifyTime, generateDataAverage, hashDataAverage,
          signDataAverage, verifyAverage, totalSamples, mailbox, pre,
          toWorker, errStream, exitCode, posted, received, hist, args,
          order, fmtArg, fmtRes>>

\* a byte array that has not been produced yet
NoBytes == <<>>
\* process.exitCode while nothing has set it
Unset == 0 - 1

(***************************************************************************)
(* Bounds of the exploration.                                              *)
(***************************************************************************)
\* iterations explored when every stage takes the same time
MaxSteadyIters == 201
\* iterations explored when each stage's time varies freely
MaxJitterIters == 2
\* the formatter is applied to every count up to this one (and to FormatProbes)
MaxSmallCount == 120

(***************************************************************************)
(* Program constants.                                                      *)
(***************************************************************************)
Window == 100
ReportEvery == 100
PadWidth == 10
FractionDigits == 3
SampleSize == 2048

\* fixed-point units per 1.0
Scale == 10^8

Stages == {"generate", "hash", "sign", "verify"}
StageOrder == <<"generate", "hash", "sign", "verify">>

PrivateKeys == {<<"k1">>, <<"k2">>}
SampleData == {<<"d1">>, <<"d2">>}

SteadyDuration == 5 * Scale
JitterDurations == {0, 2 * Scale}

\* what end - start of timeBlock can be in this run
Durations == IF profile = "steady" THEN {SteadyDuration} ELSE JitterDurations
IterBound == IF profile = "steady" THEN MaxSteadyIters ELSE MaxJitterIters

(***************************************************************************)
(* The external primitives, as free constructors.                          *)
(***************************************************************************)
Sha512(d) == <<"sha512", d>>
EdSign(h, k) == <<"sig", h, k>>
EdGetPublicKey(k) == <<"pub", k>>
EdVerify(s, h, p) == \E k \in PrivateKeys : p = EdGetPublicKey(k) /\ s = EdSign(h, k)

(***************************************************************************)
(* Strings.                                                                *)
(***************************************************************************)
DigitChars == <<"0", "1", "2", "3", "4", "5", "6", "7", "8", "9">>
IsDigit(c) == \E d \in 1..10 : DigitChars[d] = c
\* the characters of the model's strings that \w does not match
NonWordChars == {".", ",", "-", " "}
IsWordChar(c) == c \notin NonWordChars

\* Number.prototype.toString of a non-negative integer
RECURSIVE ToString(_)
ToString(n) ==
    IF n < 10 THEN <<DigitChars[n + 1]>>
    ELSE Append(ToString(n \div 10), DigitChars[(n % 10) + 1])

\* String.prototype.padStart with a one-character filler
PadStart(s, targetLength, padChar) ==
    IF Len(s) >= targetLength THEN s
    ELSE [i \in 1..(targetLength - Len(s)) |-> padChar] \o s

\* \B at the gap after the i-th character (i = 0: before the first)
NotWordBoundary(x, i) ==
    LET left == i >= 1 /\ IsWordChar(x[i])
        right == i < Len(x) /\ IsWordChar(x[i + 1])
    IN left = right

\* faulty variant: the lookahead without its (?!\d)
DigitGroupsAheadNoEnd(x, i) ==
    \E k \in 1..(Len(x) \div 3) :
        /\ i + 3 * k <= Len(x)
        /\ \A j \in (i + 1)..(i + 3 * k) : IsDigit(x[j])

\* (?=(\d{3})+(?!\d)) at the gap after the i-th character
DigitGroupsAhead(x, i) ==
    \E k \in 1..(Len(x) \div 3) :
        /\ i + 3 * k <= Len(x)
        /\ \A j \in (i + 1)..(i + 3 * k) : IsDigit(x[j])
        /\ (i + 3 * k = Len(x) \/ ~IsDigit(x[i + 3 * k + 1]))

CommaAt(x, i) == NotWordBoundary(x, i) /\ DigitGroupsAhead(x, i)

RECURSIVE ReplaceFrom(_, _)
ReplaceFrom(x, i) ==
    IF i > Len(x) THEN <<>>
    ELSE (IF CommaAt(x, i) THEN <<",">> ELSE <<>>)
         \o (IF i < Len(x) THEN <<x[i + 1]>> ELSE <<>>)
         \o ReplaceFrom(x, i + 1)

numberWithCommas(x) == ReplaceFrom(x, 0)

\* the sample-count token of the status line
CountToken(n) == numberWithCommas(PadStart(ToString(n), PadWidth, "0"))

(***************************************************************************)
(* Numbers.                                                                *)
(***************************************************************************)
Zero == [lo |-> 0, hi |-> 0]
CeilDiv(a, n) == (a + n - 1) \div n

\* faulty variant: the decay step avg -= avg / n is dropped
approxRollingAverageNoDecay(avg, newSample, n) ==
    [lo |-> avg.lo + (newSample \div n), hi |-> avg.hi + CeilDiv(newSample, n)]

approxRollingAverage(avg, newSample, n) ==
    LET lo1 == avg.lo - CeilDiv(avg.lo, n)
        hi1 == avg.hi - (avg.hi \div n)
    IN [lo |-> lo1 + (newSample \div n), hi |-> hi1 + CeilDiv(newSample, n)]

\* Number.prototype.toFixed(digits) of the value v / Scale, v >= -1:
\* the nearest multiple of 10^-digits, the larger one on a tie
Nearest(v, digits) == (v + (Scale \div (2 * 10^digits))) \div (Scale \div 10^digits)
FixedString(m, digits) ==
    ToString(m \div 10^digits) \o <<".">>
        \o PadStart(ToString(m % 10^digits), digits, "0")
\* every string toFixed can return for a double within one unit of [lo, hi]
toFixed(avg, digits) ==
    {FixedString(m, digits) : m \in Nearest(avg.lo - 1, digits)..Nearest(avg.hi + 1, digits)}

\* numberWithCommas(x.toFixed(3)) + 'ms'
TimeTokens(avg) == {numberWithCommas(f) \o <<"m", "s">> : f \in toFixed(avg, FractionDigits)}

(***************************************************************************)
(* The status message: the tokens the code joins with spaces, by label.    *)
(***************************************************************************)
StatusMessages(n, g, h, s, v) ==
    {[totalSamples |-> CountToken(n), generate |-> tg, hash |-> th,
      sign |-> ts, verify |-> tv] :
        tg \in TimeTokens(g), th \in TimeTokens(h),
        ts \in TimeTokens(s), tv \in TimeTokens(v)}

(***************************************************************************)
(* Initial state.                                                          *)
(***************************************************************************)
Start ==
    /\ profile \in {"steady", "jitter"}
    /\ isMain \in BOOLEAN
    /\ pc = "init"
    /\ inProgress = {}
    /\ privateKey = NoBytes /\ publicKey = NoBytes
    /\ data = NoBytes /\ dataHash = NoBytes /\ signature = NoBytes
    /\ verifyResult = FALSE
    /\ generateDataTime = 0 /\ hashDataTime = 0
    /\ signDataTime = 0 /\ verifyTime = 0
    /\ generateDataAverage = Zero /\ hashDataAverage = Zero
    /\ signDataAverage = Zero /\ verifyAverage = Zero
    /\ totalSamples = 0
    /\ mailbox = <<>> /\ pre = <<>> /\ toWorker = <<>>
    /\ errStream = <<>>
    /\ exitCode = Unset
    /\ posted = <<>> /\ received = <<>>
    /\ hist = [s \in Stages |-> <<>>]
    /\ args = [s \in Stages |-> <<>>]
    /\ order = <<>>

Init == Start /\ fmtArg = 0 /\ fmtRes = <<>>

(***************************************************************************)
(* main(): key setup.                                                      *)
(***************************************************************************)
Setup ==
    /\ pc = "init"
    /\ \E k \in PrivateKeys :
          /\ privateKey' = k
          /\ publicKey' = EdGetPublicKey(k)
    /\ generateDataAverage' = Zero /\ hashDataAverage' = Zero
    /\ signDataAverage' = Zero /\ verifyAverage' = Zero
    /\ totalSamples' = 0
    /\ pc' = "generate"
    /\ UNCHANGED <<envVars, inProgress, loopVars, mailbox, hostVars,
                   errStream, exitCode, posted, hist, args, order, fmtVars>>

\* makePrivateKey or getPublicKey rejects
SetupThrows ==
    /\ pc = "init"
    /\ pc' = "thrown"
    /\ UNCHANGED <<envVars, inProgress, keyVars, loopVars, avgVars, mailbox,
                   hostVars, errStream, exitCode, posted, hist, args, order,
                   fmtVars>>

(***************************************************************************)
(* timeBlock: start = time(); the callback is called with the values its   *)
(* closure reads now; the await suspends main().                           *)
(***************************************************************************)
StageArgs(s) ==
    CASE s = "generate" -> <<SampleSize>>
      [] s = "hash" -> <<data>>
      [] s = "sign" -> <<dataHash, privateKey>>
      [] s = "verify" -> <<signature, dataHash, publicKey>>

\* faulty variant: sign is run before hash
StageAfterSwapped(s) ==
    CASE s = "generate" -> "sign"
      [] s = "sign" -> "hash"
      [] s = "hash" -> "verify"
      [] s = "verify" -> "check"

\* the stage main() runs after stage s has completed ("check": the test
\* of verifyResult)
StageAfter(s) ==
    CASE s = "generate" -> "hash"
      [] s = "hash" -> "sign"
      [] s = "sign" -> "verify"
      [] s = "verify" -> "check"

TimeBlockStart(s) ==
    /\ pc = s
    /\ s \notin inProgress
    /\ s = "generate" => totalSamples < IterBound
    /\ inProgress' = inProgress \cup {s}
    /\ IF s = "generate"
       THEN \* a new iteration: fresh bindings
            /\ data' = NoBytes /\ dataHash' = NoBytes /\ signature' = NoBytes
            /\ order' = <<>>
            /\ args' = [t \in Stages |-> IF t = s THEN StageArgs(s) ELSE <<>>]
       ELSE /\ UNCHANGED <<data, dataHash, signature, order>>
            /\ args' = [args EXCEPT ![s] = StageArgs(s)]
    /\ UNCHANGED <<envVars, pc, keyVars, verifyResult, generateDataTime,
                   hashDataTime, signDataTime, verifyTime, avgVars, mailbox,
                   hostVars, errStream, exitCode, posted, hist, fmtVars>>

\* the bookkeeping of a stage that completes after time t
Completes(s, t) ==
    /\ pc = s
    /\ s \in inProgress
    /\ inProgress' = inProgress \ {s}
    /\ hist' = [hist EXCEPT ![s] = Append(@, t)]
    /\ order' = Append(order, s)
    /\ pc' = StageAfter(s)
    /\ UNCHANGED <<envVars, keyVars, avgVars, mailbox, hostVars, errStream,
                   exitCode, posted, args, fmtVars>>

GenerateDone ==
    \E t \in Durations, d \in SampleData :
        /\ Completes("generate", t)
        /\ data' = d
        /\ generateDataTime' = t
        /\ UNCHANGED <<dataHash, signature, verifyResult, hashDataTime,
                       signDataTime, verifyTime>>

HashDone ==
    \E t \in Durations :
        /\ Completes("hash", t)
        /\ dataHash' = Sha512(args["hash"][1])
        /\ hashDataTime' = t
        /\ UNCHANGED <<data, signature, verifyResult, generateDataTime,
                       signDataTime, verifyTime>>

SignDone ==
    \E t \in Durations :
        /\ Completes("sign", t)
        /\ signature' = EdSign(args["sign"][1], args["sign"][2])
        /\ signDataTime' = t
        /\ UNCHANGED <<data, dataHash, verifyResult, generateDataTime,
                       hashDataTime, verifyTime>>

\* verify answers as Ed25519 does, or is corrupted and answers false
VerifyDone ==
    \E t \in Durations, sound \in BOOLEAN :
        /\ Completes("verify", t)
        /\ verifyResult' = (sound /\ EdVerify(args["verify"][1],
                                              args["verify"][2],
                                              args["verify"][3]))
        /\ verifyTime' = t
        /\ UNCHANGED <<data, dataHash, signature, generateDataTime,
                       hashDataTime, signDataTime>>

\* the stage's promise rejects
StageThrows(s) ==
    /\ pc = s
    /\ s \in inProgress
    /\ inProgress' = inProgress \ {s}
    /\ pc' = "thrown"
    /\ UNCHANGED <<envVars, keyVars, loopVars, avgVars, mailbox, hostVars,
                   errStream, exitCode, posted, hist, args, order, fmtVars>>

(***************************************************************************)
(* The rest of the iteration.                                              *)
(***************************************************************************)
\* faulty variant: the error is reported but the loop is not left
VerifyFailedNoBreak ==
    /\ pc = "check"
    /\ verifyResult = FALSE
    /\ errStream' = Append(errStream, "Failed to Verify")
    /\ pc' = "generate"
    /\ UNCHANGED <<envVars, inProgress, keyVars, loopVars, avgVars, mailbox,
                   hostVars, exitCode, posted, hist, args, order, fmtVars>>

\* faulty variant: the failed iteration is counted before the loop is left
VerifyFailedCounts ==
    /\ pc = "check"
    /\ verifyResult = FALSE
    /\ errStream' = Append(errStream, "Failed to Verify")
    /\ totalSamples' = totalSamples + 1
    /\ pc' = "returned"
    /\ UNCHANGED <<envVars, inProgress, keyVars, loopVars, generateDataAverage,
                   hashDataAverage, signDataAverage, verifyAverage, mailbox,
                   hostVars, exitCode, posted, hist, args, order, fmtVars>>

VerifyFailed ==
    /\ pc = "check"
    /\ verifyResult = FALSE
    /\ errStream' = Append(errStream, "Failed to Verify")
    /\ pc' = "returned"
    /\ UNCHANGED <<envVars, inProgress, keyVars, loopVars, avgVars, mailbox,
                   hostVars, exitCode, posted, hist, args, order, fmtVars>>

\* faulty variant: the hash average is fed the generate stage's duration
SampleForCrossed(s) ==
    CASE s = "generate" -> generateDataTime
      [] s = "hash" -> generateDataTime
      [] s = "sign" -> signDataTime
      [] s = "verify" -> verifyTime

\* the duration fed to stage s's average
SampleFor(s) ==
    CASE s = "generate" -> generateDataTime
      [] s = "hash" -> hashDataTime
      [] s = "sign" -> signDataTime
      [] s = "verify" -> verifyTime

\* faulty variant: the count is tested as it was before the increment
ReportDueBeforeIncrement(n) == (n - 1) % ReportEvery = 0

\* faulty variant: only the first report is made
ReportDueOnce(n) == n = ReportEvery

\* totalSamples % 100 === 0, n the count after the increment
ReportDue(n) == n % ReportEvery = 0

Accumulate ==
    /\ pc = "check"
    /\ verifyResult # FALSE
    /\ generateDataAverage' =
          approxRollingAverage(generateDataAverage, SampleFor("generate"), Window)
    /\ hashDataAverage' =
          approxRollingAverage(hashDataAverage, SampleFor("hash"), Window)
    /\ signDataAverage' =
          approxRollingAverage(signDataAverage, SampleFor("sign"), Window)
    /\ verifyAverage' =
          approxRollingAverage(verifyAverage, SampleFor("verify"), Window)
    /\ totalSamples' = totalSamples + 1
    /\ IF ReportDue(totalSamples')
       THEN \E m \in StatusMessages(totalSamples', generateDataAverage',
                                    hashDataAverage', signDataAverage',
                                    verifyAverage') :
               /\ mailbox' = Append(mailbox, m)
               /\ posted' = Append(posted, m)
       ELSE UNCHANGED <<mailbox, posted>>
    /\ pc' = "generate"
    /\ UNCHANGED <<envVars, inProgress, keyVars, loopVars, hostVars,
                   errStream, exitCode, hist, args, order, fmtVars>>

(***************************************************************************)
(* The module entry's handlers.                                            *)
(***************************************************************************)
\* .then(exitCode => (process.exitCode = exitCode)); main() returned 0
Returned ==
    /\ pc = "returned"
    /\ isMain
    /\ exitCode' = 0
    /\ pc' = "exited"
    /\ UNCHANGED <<envVars, inProgress, keyVars, loopVars, avgVars, mailbox,
                   hostVars, errStream, posted, hist, args, order, fmtVars>>

\* faulty variant: the error is reported but the process does not exit with 1
FatalNoExit ==
    /\ pc = "thrown"
    /\ errStream' = Append(errStream, "Fatal")
    /\ pc' = "caught"
    /\ UNCHANGED <<envVars, inProgress, keyVars, loopVars, avgVars, mailbox,
                   hostVars, exitCode, posted, hist, args, order, fmtVars>>

\* .catch: console.error('Fatal', err), and process.exit(1) as main module
Fatal ==
    /\ pc = "thrown"
    /\ errStream' = Append(errStream, "Fatal")
    /\ IF isMain
       THEN exitCode' = 1 /\ pc' = "exited"
       ELSE UNCHANGED exitCode /\ pc' = "caught"
    /\ UNCHANGED <<envVars, inProgress, keyVars, loopVars, avgVars, mailbox,
                   hostVars, posted, hist, args, order, fmtVars>>

(***************************************************************************)
(* The host page's message listener.                                       *)
(***************************************************************************)
\* faulty variant: the line is appended to the log
DeliverAppends ==
    /\ mailbox # <<>>
    /\ pre' = Append(pre, Head(mailbox))
    /\ received' = Append(received, Head(mailbox))
    /\ mailbox' = Tail(mailbox)
    /\ UNCHANGED <<envVars, pc, inProgress, keyVars, loopVars, avgVars,
                   toWorker, errStream, exitCode, posted, hist, args, order,
                   fmtVars>>

Deliver ==
    /\ mailbox # <<>>
    /\ pre' = <<Head(mailbox)>> \o pre
    /\ received' = Append(received, Head(mailbox))
    /\ mailbox' = Tail(mailbox)
    /\ UNCHANGED <<envVars, pc, inProgress, keyVars, loopVars, avgVars,
                   toWorker, errStream, exitCode, posted, hist, args, order,
                   fmtVars>>

Worker ==
    \/ Setup
    \/ SetupThrows
    \/ \E s \in Stages : TimeBlockStart(s)
    \/ GenerateDone
    \/ HashDone
    \/ SignDone
    \/ VerifyDone
    \/ \E s \in Stages : StageThrows(s)
    \/ VerifyFailed
    \/ Accumulate
    \/ Returned
    \/ Fatal

Next == Worker \/ Deliver

Spec == Init /\ [][Next]_vars

(***************************************************************************)
(* The count formatter on its own: CountToken applied to a chosen count.   *)
(***************************************************************************)
FormatProbes ==
    {999, 1000, 9999, 10000, 99999, 100000, 999999, 1000000, 1234567,
     9999999, 10000000, 99999999, 100000000, 999999999, 1000000000,
     1234567890, 2147483647}
FormatInputs == (0..MaxSmallCount) \cup FormatProbes

FormatInit == Start /\ fmtArg \in FormatInputs /\ fmtRes = <<>>

FormatCount ==
    /\ fmtRes = <<>>
    /\ fmtRes' = CountToken(fmtArg)
    /\ UNCHANGED <<envVars, pc, inProgress, keyVars, loopVars, avgVars,
                   mailbox, hostVars, errStream, exitCode, posted, hist,
                   args, order, fmtArg>>

FormatNext == FormatCount

FormatSpec == FormatInit /\ [][FormatNext]_vars

(***************************************************************************)
(* The loop under fair scheduling, every stage taking the same time.       *)
(***************************************************************************)
LiveInit == Init /\ profile = "steady"

LiveSpec == LiveInit /\ [][Next]_vars /\ WF_vars(Worker)

(***************************************************************************)
(* Auxiliary definitions of the properties.                                *)
(***************************************************************************)
Range(f) == {f[i] : i \in 1..Len(f)}
Reverse(q) == [i \in 1..Len(q) |-> q[Len(q) + 1 - i]]

\* avg := avg - avg/100 + s/100 iterated from 0 over the first k samples
RECURSIVE IterateTo(_, _)
IterateTo(samples, k) ==
    IF k = 0 THEN Zero
    ELSE approxRollingAverage(IterateTo(samples, k - 1), samples[k], Window)

FailedReported == "Failed to Verify" \in Range(errStream)
Stopped == pc \in {"returned", "thrown", "exited", "caught"}
VerifyFalse == pc = "check" /\ verifyResult = FALSE
VerifyTrue == pc = "check" /\ verifyResult = TRUE

(***************************************************************************)
(* C1: the number of status messages posted so far is always               *)
(* floor(totalSamples / 100), and the i-th of them carries the count       *)
(* 100 * i: one message as each of the iterations 100, 200, ... completes  *)
(* and none on any other.                                                  *)
(***************************************************************************)
C1_StatusEveryHundred ==
    /\ Len(posted) = totalSamples \div 100
    /\ \A i \in 1..Len(posted) : posted[i].totalSamples = CountToken(100 * i)

C1_Witness == totalSamples = 201 /\ Len(posted) = 2 /\ pc = "generate"

(***************************************************************************)
(* C2: when verify has returned false the next step of the loop reports    *)
(* 'Failed to Verify' and leaves the loop, and from then on no stage       *)
(* starts or completes and no status message is posted.                    *)
(***************************************************************************)
C2_VerifyFailureHalts ==
    [][/\ VerifyFalse =>
            /\ UNCHANGED <<posted, inProgress, order, hist, args>>
            /\ \/ pc' = pc
               \/ /\ pc' = "returned"
                  /\ errStream' = Append(errStream, "Failed to Verify")
       /\ FailedReported =>
            /\ UNCHANGED <<posted, inProgress, order, hist, args, totalSamples>>
            /\ inProgress = {}
            /\ pc' \in {"returned", "exited"}]_vars

C2_Witness ==
    /\ FailedReported
    /\ totalSamples = 99
    /\ Len(hist["verify"]) = 100
    /\ posted = <<>>

(***************************************************************************)
(* C3: each average is 0 at the start; a step that completes iteration k   *)
(* replaces each average avg by avg - avg/100 + s/100 for s the k-th       *)
(* duration measured for its own stage, and no other step changes an       *)
(* average: after k iterations each average is the iterate over its own    *)
(* stage's first k samples (compared with the iterate written out while    *)
(* the history is short).  The tokens of a status message are the          *)
(* averages just computed, to 3 decimals.                                  *)
(***************************************************************************)
C3_AveragesAreOwnIterates ==
    /\ [](/\ totalSamples = 0 =>
                /\ generateDataAverage = Zero /\ hashDataAverage = Zero
                /\ signDataAverage = Zero /\ verifyAverage = Zero
          /\ \A s \in Stages : Len(hist[s]) >= totalSamples
          /\ totalSamples <= 4 =>
                /\ generateDataAverage = IterateTo(hist["generate"], totalSamples)
                /\ hashDataAverage = IterateTo(hist["hash"], totalSamples)
                /\ signDataAverage = IterateTo(hist["sign"], totalSamples)
                /\ verifyAverage = IterateTo(hist["verify"], totalSamples))
    /\ [][/\ totalSamples' # totalSamples =>
                /\ totalSamples' = totalSamples + 1
                /\ generateDataAverage' = approxRollingAverage(generateDataAverage,
                                            hist["generate"][totalSamples'], 100)
                /\ hashDataAverage' = approxRollingAverage(hashDataAverage,
                                            hist["hash"][totalSamples'], 100)
                /\ signDataAverage' = approxRollingAverage(signDataAverage,
                                            hist["sign"][totalSamples'], 100)
                /\ verifyAverage' = approxRollingAverage(verifyAverage,
                                            hist["verify"][totalSamples'], 100)
          /\ totalSamples' = totalSamples =>
                UNCHANGED <<generateDataAverage, hashDataAverage,
                            signDataAverage, verifyAverage>>
          /\ posted' # posted =>
                /\ Len(posted') = Len(posted) + 1
                /\ totalSamples' = 100 * Len(posted')
                /\ posted'[Len(posted')].generate \in TimeTokens(generateDataAverage')
                /\ posted'[Len(posted')].hash \in TimeTokens(hashDataAverage')
                /\ posted'[Len(posted')].sign \in TimeTokens(signDataAverage')
                /\ posted'[Len(posted')].verify \in TimeTokens(verifyAverage')
       ]_vars

C3_Witness ==
    /\ totalSamples = 2
    /\ SubSeq(hist["generate"], 1, 2) = <<0, 2 * Scale>>
    /\ SubSeq(hist["hash"], 1, 2) = <<2 * Scale, 0>>
    /\ SubSeq(hist["sign"], 1, 2) = <<0, 0>>
    /\ generateDataAverage # hashDataAverage
    /\ hashDataAverage # verifyAverage

(***************************************************************************)
(* C4 (as amended): with every duration equal to 5.0, after 100            *)
(* iterations each average lies within 10^-6 of 3.169838 =                 *)
(* 5.0 * (1 - 0.99^100) and is formatted as "3.170ms".                     *)
(***************************************************************************)
Near(avg, v, eps) == v - eps <= avg.lo /\ avg.hi <= v + eps
Token3170 == <<"3", ".", "1", "7", "0", "m", "s">>
Token3205 == <<"3", ".", "2", "0", "5", "m", "s">>
SteadyHundred == profile = "steady" /\ totalSamples = 100

C4_SteadyAverage ==
    SteadyHundred =>
        /\ Near(generateDataAverage, 316983829, 100)
        /\ Near(hashDataAverage, 316983829, 100)
        /\ Near(signDataAverage, 316983829, 100)
        /\ Near(verifyAverage, 316983829, 100)
        /\ TimeTokens(generateDataAverage) = {Token3170}
        /\ Len(posted) = 1
        /\ posted[1].generate = Token3170 /\ posted[1].hash = Token3170
        /\ posted[1].sign = Token3170 /\ posted[1].verify = Token3170

C4_Witness ==
    /\ SteadyHundred
    /\ Len(hist["generate"]) = 100
    /\ Range(hist["generate"]) = {5 * Scale}
    /\ posted # <<>>

\* C4 as stated: the average is about 3.205 and is formatted as "3.205ms"
C4_Original ==
    SteadyHundred =>
        /\ Near(generateDataAverage, 320500000, 50000)
        /\ posted[1].generate = Token3205

(***************************************************************************)
(* C5: the count token of a count below 10^10 is its decimal digits        *)
(* left-padded with zeros to 10 digits and comma-grouped in threes from    *)
(* the right, 13 characters of the shape d,ddd,ddd,ddd; 1234567 gives      *)
(* "0,001,234,567".                                                        *)
(***************************************************************************)
\* the j-th of the 10 digits of n, most significant first
PaddedDigit(n, j) == DigitChars[((n \div 10^(10 - j)) % 10) + 1]

C5_CountToken ==
    fmtRes # <<>> =>
        /\ Len(fmtRes) = 13
        /\ \A i \in {2, 6, 10} : fmtRes[i] = ","
        /\ \A j \in 1..10 : fmtRes[j + ((j + 1) \div 3)] = PaddedDigit(fmtArg, j)
        /\ fmtArg = 1234567 =>
              fmtRes = <<"0", ",", "0", "0", "1", ",", "2", "3", "4", ",",
                         "5", "6", "7">>

C5_Witness == fmtArg = 1234567 /\ Len(fmtRes) = 13

(***************************************************************************)
(* C6: as the main module, the exit code is set to 0 by main() returning   *)
(* and to 1 by an error thrown in setup or in a stage, and "Fatal" is      *)
(* written to the error stream in the step that exits with 1.              *)
(***************************************************************************)
C6_ExitCodes ==
    /\ [](/\ exitCode \in {Unset, 0, 1}
          /\ exitCode # Unset => isMain /\ pc = "exited"
          /\ isMain /\ pc = "exited" => exitCode # Unset
          /\ exitCode = 1 => errStream # <<>> /\ errStream[Len(errStream)] = "Fatal"
          /\ exitCode = 0 => "Fatal" \notin Range(errStream))
    /\ [][isMain =>
            /\ pc = "thrown" /\ pc' # pc =>
                  /\ errStream' = Append(errStream, "Fatal")
                  /\ exitCode' = 1
                  /\ pc' = "exited"
            /\ pc = "returned" /\ pc' # pc => exitCode' = 0 /\ pc' = "exited"
            /\ pc' = "exited" => pc \in {"thrown", "returned", "exited"}
            /\ pc = "exited" => UNCHANGED <<pc, exitCode, errStream>>]_vars

C6_Witness ==
    /\ isMain /\ pc = "exited" /\ exitCode = 1
    /\ totalSamples >= 1
    /\ order = <<"generate", "hash">>

(***************************************************************************)
(* C7: main() returns only after reporting a failed verification; under    *)
(* fair scheduling of the worker, unless a verification fails or a stage   *)
(* throws, totalSamples reaches every explored count and the status        *)
(* message of every explored multiple 100 * k is eventually posted.        *)
(***************************************************************************)
C7_LoopRunsOn ==
    /\ [](pc = "returned" => FailedReported)
    /\ [](pc \in Stages \cup {"check"} => ~FailedReported)
    /\ \A n \in {1, 99, 100, 150, MaxSteadyIters} :
          <>(Stopped \/ totalSamples >= n)
    /\ \A k \in 1..(MaxSteadyIters \div 100) :
          <>(Stopped \/ (Len(posted) >= k
                         /\ posted[k].totalSamples = CountToken(100 * k)))

C7_Witness ==
    /\ ~Stopped
    /\ totalSamples = 200
    /\ Len(posted) = 2
    /\ posted[2].totalSamples = CountToken(200)

(***************************************************************************)
(* C8: at most one stage is in progress at a time; the stages of an        *)
(* iteration complete in the order generate, hash, sign, verify and a      *)
(* stage starts only when all the stages before it have completed; hash is *)
(* called with the iteration's sample, sign with its digest and the        *)
(* private key, verify with its signature, its digest and the public key   *)
(* derived from that private key.                                          *)
(***************************************************************************)
C8_StagesInOrder ==
    /\ Cardinality(inProgress) <= 1
    /\ Len(order) <= 4
    /\ \A i \in 1..Len(order) : order[i] = StageOrder[i]
    /\ \A s \in inProgress : Len(order) < 4 /\ s = StageOrder[Len(order) + 1]
    /\ \A s \in Stages : s \in inProgress \/ s \in Range(order) => args[s] # <<>>
    /\ \A i \in 1..4 : args[StageOrder[i]] # <<>> => Len(order) >= i - 1
    /\ pc \in Stages \cup {"check"} =>
          /\ privateKey \in PrivateKeys
          /\ publicKey = EdGetPublicKey(privateKey)
    /\ args["hash"] # <<>> => data \in SampleData /\ args["hash"] = <<data>>
    /\ args["sign"] # <<>> =>
          /\ dataHash = Sha512(data)
          /\ args["sign"] = <<dataHash, privateKey>>
    /\ args["verify"] # <<>> =>
          /\ signature = EdSign(dataHash, privateKey)
          /\ args["verify"] = <<signature, dataHash, publicKey>>

C8_Witness ==
    /\ pc = "check"
    /\ order = StageOrder
    /\ verifyResult = TRUE
    /\ totalSamples = 1

(***************************************************************************)
(* C9 (as amended): the log is the sequence of messages received so far,   *)
(* each once, latest first; received and undelivered messages together     *)
(* are exactly the messages posted, in order; the top line carries the     *)
(* largest totalSamples received so far; nothing is sent to the worker.    *)
(***************************************************************************)
Conserved ==
    /\ received \o mailbox = posted
    /\ pre = Reverse(received)
    /\ toWorker = <<>>

C9_LogIsReceivedReversed ==
    /\ Conserved
    /\ pre # <<>> =>
          /\ pre[1] = received[Len(received)]
          /\ pre[1].totalSamples = CountToken(100 * Len(received))
          /\ \A i \in 1..Len(pre) :
                pre[i].totalSamples = CountToken(100 * (Len(pre) + 1 - i))

C9_Witness == Len(pre) = 2 /\ mailbox = <<>> /\ pre[1] # pre[2]

\* C9 as stated: the top line carries the largest totalSamples posted so far
C9_Original ==
    /\ Conserved
    /\ pre # <<>> => pre[1].totalSamples = CountToken(100 * Len(posted))

(***************************************************************************)
(* C10: totalSamples only ever grows, by 1, in the step that accepts a     *)
(* verified iteration, and that is the only step that changes an average;  *)
(* the step after a failed verification changes neither; the keys do not   *)
(* change after setup.                                                     *)
(***************************************************************************)
C10_RollingStateFrame ==
    [][/\ totalSamples' \in {totalSamples, totalSamples + 1}
       /\ avgVars' # avgVars => VerifyTrue /\ totalSamples' = totalSamples + 1
       /\ VerifyTrue /\ pc' # pc => totalSamples' = totalSamples + 1
       /\ VerifyFalse => UNCHANGED avgVars
       /\ pc # "init" => UNCHANGED keyVars]_vars

C10_Witness ==
    /\ pc = "returned"
    /\ totalSamples = 2
    /\ Len(hist["verify"]) = 3
    /\ generateDataAverage # Zero

=============================================================================
